---- MODULE Spec2Model ----
(***************************************************************************)
(* The order book of internal/matching/order_book.go: two price-ordered    *)
(* side queues, the add, cancel and depth channels, the command loop       *)
(* (Start), the matcher (handleOrder, handleMarketOrder, cancelOrder) and  *)
(* the calls AddOrder, CancelOrder and Depth.                              *)
(*                                                                         *)
(* A decimal.Decimal size is represented by the whole number of 10^-16 it  *)
(* holds, 10^-16 being the resolution at which Decimal.Div rounds          *)
(* (DivisionPrecision is 16); prices are whole numbers.  The orders of     *)
(* Sizes are multiples of Unit and carry prices that are powers of two,    *)
(* so no quotient size/price the matcher forms within MaxCmds commands is  *)
(* rounded.  The orders of TickSizes are a few 10^-16 large: there         *)
(* Decimal.Div rounds.                                                     *)
(*                                                                         *)
(* The side queue (type queue, type priceUnit) is not among the sources;   *)
(* its operations are modelled from section 4.1 of the specification and   *)
(* from the way order_book.go uses them.  The queue stores *Order, so a    *)
(* write through a popped pointer is seen by every list element that       *)
(* still refers to that order (setSize).                                   *)
(***************************************************************************)
EXTENDS Integers, Sequences, FiniteSets, TLC

\* ---------------------------------------------------------------- bounds
MaxCmds == 3      \* commands (adds, cancels, depths) sent in one behaviour
MaxLevel == 2     \* number of distinct prices orders may carry
MaxSize == 2      \* sizes 1..MaxSize, in Unit (Sizes) or in 10^-16 (TickSizes)

\* ------------------------------------------------------------- constants
Buy == 1
Sell == 2
Market == "market"
Limit == "limit"
FOK == "fok"
IOC == "ioc"
PostOnly == "post_only"
Cancel == "cancel"
ChanCap == 1000000

RECURSIVE Pow(_, _)
Pow(b, e) == IF e = 0 THEN 1 ELSE b * Pow(b, e - 1)

Prices == {Pow(2, i) : i \in 0..(MaxLevel - 1)}
MaxPrice == Pow(2, MaxLevel - 1)
\* the sizes that are multiples of Unit are divided without rounding
Unit == Pow(MaxPrice, MaxCmds)
Sizes == {k * Unit : k \in 1..MaxSize}
\* sizes of a few 10^-16, which Decimal.Div rounds
TickSizes == 1..MaxSize
Sides == {Buy, Sell}
BookTypes == {Limit, IOC, FOK, PostOnly}
AllTypes == {Limit, IOC, FOK, PostOnly, Market, Cancel}

\* ------------------------------------------------------- decimal.Decimal
\* Decimal.Mul of a price by a size
DecMul(price, size) == price * size
\* Decimal.Div of a size by a price: DivRound, half away from zero, at the
\* resolution of the representation
DecDiv(size, price) == ((2 * size) + price) \div (2 * price)

\* ------------------------------------------------------------ side queue
Opp(side) == IF side = Buy THEN Sell ELSE Buy

\* priority of the queue of one side: bids descending, asks ascending
Before(side, p, q) == IF side = Buy THEN p > q ELSE p < q

LevelIndex(q, price) ==
    IF \E i \in 1..Len(q) : q[i].price = price
    THEN CHOOSE i \in 1..Len(q) : q[i].price = price
    ELSE 0

InsertAt(s, i, x) == SubSeq(s, 1, i - 1) \o <<x>> \o SubSeq(s, i, Len(s))

RemoveAt(s, i) == SubSeq(s, 1, i - 1) \o SubSeq(s, i + 1, Len(s))

\* queue.insertOrder(order, isFront)
insertOrder(q, side, order, isFront) ==
    LET i == LevelIndex(q, order.price) IN
    IF i # 0
    THEN [q EXCEPT ![i] =
            [price |-> @.price,
             totalSize |-> @.totalSize + order.size,
             list |-> IF isFront THEN <<order>> \o @.list
                                 ELSE Append(@.list, order)]]
    ELSE LET k == Cardinality({j \in 1..Len(q) :
                                 Before(side, q[j].price, order.price)}) IN
         InsertAt(q, k + 1,
                  [price |-> order.price, totalSize |-> order.size,
                   list |-> <<order>>])

\* queue.addOrder(order): the plain insert, at the back of the level
queueAddOrder(q, side, order) == insertOrder(q, side, order, FALSE)

\* the order queue.popHeadOrder() returns (the caller tests q for nil first)
headOrder(q) == q[1].list[1]

\* the queue queue.popHeadOrder() leaves
popHeadOrder(q) ==
    IF Len(q[1].list) = 1
    THEN Tail(q)
    ELSE [q EXCEPT ![1] =
            [price |-> @.price,
             totalSize |-> @.totalSize - @.list[1].size,
             list |-> Tail(@.list)]]

\* queue.order(id): the resting order, or Nil
Nil == [id |-> 0]

queueOrder(q, id) ==
    LET hits == {<<i, j>> \in (1..Len(q)) \X (1..(MaxCmds + 1)) :
                    j <= Len(q[i].list) /\ q[i].list[j].id = id} IN
    IF hits = {} THEN Nil
    ELSE LET h == CHOOSE h \in hits :
                    \A g \in hits : h[1] < g[1] \/ (h[1] = g[1] /\ h[2] <= g[2])
         IN q[h[1]].list[h[2]]

\* queue.removeOrder(price, id)
removeOrder(q, price, id) ==
    LET i == LevelIndex(q, price) IN
    IF i = 0 THEN q
    ELSE LET l == q[i].list
             js == {j \in 1..Len(l) : l[j].id = id} IN
         IF js = {} THEN q
         ELSE LET j == CHOOSE j \in js : \A k \in js : j <= k IN
              IF Len(l) = 1 THEN RemoveAt(q, i)
              ELSE [q EXCEPT ![i] =
                      [price |-> @.price,
                       totalSize |-> @.totalSize - l[j].size,
                       list |-> RemoveAt(l, j)]]

\* tOrd.Size = ... written through the *Order the queue's lists share
setSize(q, id, size) ==
    [i \in 1..Len(q) |->
        [q[i] EXCEPT !.list =
            [j \in 1..Len(q[i].list) |->
                IF q[i].list[j].id = id
                THEN [q[i].list[j] EXCEPT !.size = size]
                ELSE q[i].list[j]]]]

\* ----------------------------------------------------------------- trades
\* CancelTrade carrying the submitted size, not the size left
CancelTradeSubmitted(order, size) ==
    [taker |-> order.id, maker |-> order.id, takerSide |-> order.side,
     takerType |-> order.type, price |-> order.price, size |-> order.size,
     isCancel |-> TRUE]

\* the is_cancel Trade literal of handleOrder / handleMarketOrder
CancelTrade(order, size) ==
    [taker |-> order.id, maker |-> order.id, takerSide |-> order.side,
     takerType |-> order.type, price |-> order.price, size |-> size,
     isCancel |-> TRUE]

\* FillTrade with IsCancel set, as in the is_cancel literal
FillTradeFlagged(order, tOrd, size) ==
    [taker |-> order.id, maker |-> tOrd.id, takerSide |-> 0,
     takerType |-> "", price |-> tOrd.price, size |-> size,
     isCancel |-> TRUE]

\* FillTrade priced at the incoming order's price
FillTradeAtOrderPrice(order, tOrd, size) ==
    [taker |-> order.id, maker |-> tOrd.id, takerSide |-> 0,
     takerType |-> "", price |-> order.price, size |-> size,
     isCancel |-> FALSE]

\* the fill Trade literal: only the ids, the price and the size are set
FillTrade(order, tOrd, size) ==
    [taker |-> order.id, maker |-> tOrd.id, takerSide |-> 0,
     takerType |-> "", price |-> tOrd.price, size |-> size,
     isCancel |-> FALSE]

Outcome(my, target, trades, panic) ==
    [my |-> my, target |-> target, trades |-> trades, panic |-> panic]

\* --------------------------------------------------------------- matcher
\* NotCross with the comparisons made non-strict: a head at the order's own
\* price is put back as well
NotCrossOrEqual(order, tOrd) ==
    \/ order.side = Buy /\ order.price <= tOrd.price
    \/ order.side = Sell /\ order.price >= tOrd.price

\* NotCross with the two sides exchanged
NotCrossSwapped(order, tOrd) ==
    \/ order.side = Sell /\ order.price < tOrd.price
    \/ order.side = Buy /\ order.price > tOrd.price

\* the test that puts the popped head back (order_book.go 310-311)
NotCross(order, tOrd) ==
    \/ order.side = Buy /\ order.price < tOrd.price
    \/ order.side = Sell /\ order.price > tOrd.price

\* FokLevelHit without the price comparisons: every level large enough
\* counts
FokLevelHitAnyPrice(order, size, unit) ==
    \/ order.side = Buy /\ size >= unit.totalSize
    \/ order.side = Sell /\ size >= unit.totalSize

\* the FOK test of one price level (order_book.go 251-252)
FokLevelHit(order, size, unit) ==
    LET tOrd == unit.list[1] IN
    \/ order.side = Buy /\ order.price >= tOrd.price /\ size >= unit.totalSize
    \/ order.side = Sell /\ order.price <= tOrd.price /\ size >= unit.totalSize

\* what the FOK walk subtracts from order.Size at a level that passes
FokTake(unit) == unit.list[1].size

\* the FOK walk over targetQueue.depthList from element i on, order.Size
\* being size: ok when it breaks out to the matching loop, otherwise the
\* order.Size the is_cancel event carries
RECURSIVE fokWalk(_, _, _, _)
fokWalk(order, tq, i, size) ==
    IF i > Len(tq) THEN [ok |-> FALSE, size |-> size]
    ELSE LET hit == FokLevelHit(order, size, tq[i])
             sz == IF hit THEN size - FokTake(tq[i]) ELSE size IN
         IF hit /\ sz = 0 THEN [ok |-> TRUE, size |-> order.size]
         ELSE IF sz < 0 THEN [ok |-> FALSE, size |-> sz]
         ELSE fokWalk(order, tq, i + 1, sz)

\* restOrder with the order put at the front of its level
restOrderFront(my, order, size) ==
    insertOrder(my, order.side, [order EXCEPT !.size = size], TRUE)

\* myQueue.insertOrder(order, false) of lines 289 and 316, order.Size
\* being size
restOrder(my, order, size) ==
    insertOrder(my, order.side, [order EXCEPT !.size = size], FALSE)

\* the matching loop of handleOrder (order_book.go 283-386); size is the
\* current order.Size
RECURSIVE matchLoop(_, _, _, _, _)
matchLoop(order, my, tq, size, trades) ==
    LET tside == Opp(order.side)
    IN
    IF tq = <<>>
    THEN CASE order.type \in {Limit, PostOnly} ->
                Outcome(restOrder(my, order, size), tq, trades, FALSE)
           [] order.type = IOC ->
                Outcome(my, tq, Append(trades, CancelTrade(order, size)), FALSE)
           [] OTHER ->
                \* tOrd is nil and line 310 reads tOrd.Price
                Outcome(my, tq, trades, TRUE)
    ELSE LET tOrd == headOrder(tq)
             nocross == NotCross(order, tOrd)
             tq2 == IF nocross
                    THEN insertOrder(popHeadOrder(tq), tside, tOrd, TRUE)
                    ELSE popHeadOrder(tq)
         IN
         IF nocross /\ order.type \in {Limit, PostOnly}
         THEN Outcome(restOrder(my, order, size), tq2, trades, FALSE)
         ELSE IF nocross /\ order.type = IOC
         THEN Outcome(my, tq2, Append(trades, CancelTrade(order, size)), FALSE)
         ELSE IF order.type = PostOnly
         THEN Outcome(my, queueAddOrder(tq2, tside, tOrd),
                      Append(trades, CancelTrade(order, size)), FALSE)
         ELSE IF size >= tOrd.size
         THEN LET tr == Append(trades, FillTrade(order, tOrd, tOrd.size))
                  sz == size - tOrd.size IN
              IF sz = 0 THEN Outcome(my, tq2, tr, FALSE)
              ELSE matchLoop(order, my, tq2, sz, tr)
         ELSE LET left == tOrd.size - size IN
              Outcome(my,
                      insertOrder(setSize(tq2, tOrd.id, left), tside,
                                  [tOrd EXCEPT !.size = left], TRUE),
                      Append(trades, FillTrade(order, tOrd, size)), FALSE)

\* OrderBook.handleOrder
handleOrder(order, bid, ask) ==
    LET my == IF order.side = Buy THEN bid ELSE ask
        tq == IF order.side = Buy THEN ask ELSE bid
        walk == fokWalk(order, tq, 1, order.size)
        out == IF order.type = FOK /\ ~walk.ok
               THEN Outcome(my, tq, <<CancelTrade(order, walk.size)>>, FALSE)
               ELSE matchLoop(order, my, tq, order.size, <<>>)
    IN [bid |-> IF order.side = Buy THEN out.my ELSE out.target,
        ask |-> IF order.side = Buy THEN out.target ELSE out.my,
        trades |-> out.trades, panic |-> out.panic]

\* the loop of handleMarketOrder (order_book.go 397-451); size is the
\* quote amount left in order.Size
RECURSIVE marketLoop(_, _, _, _)
marketLoop(order, tq, size, trades) ==
    IF tq = <<>>
    THEN [target |-> tq, trades |-> Append(trades, CancelTrade(order, size))]
    ELSE LET tOrd == headOrder(tq)
             tq2 == popHeadOrder(tq)
             amount == DecMul(tOrd.price, tOrd.size)
         IN
         IF size >= amount
         THEN LET tr == Append(trades, FillTrade(order, tOrd, tOrd.size))
                  sz == size - amount IN
              IF sz = 0 THEN [target |-> tq2, trades |-> tr]
              ELSE marketLoop(order, tq2, sz, tr)
         ELSE LET tSize == DecDiv(size, tOrd.price)
                  left == tOrd.size - tSize IN
              [target |-> insertOrder(setSize(tq2, tOrd.id, left),
                                      Opp(order.side),
                                      [tOrd EXCEPT !.size = left], TRUE),
               trades |-> Append(trades, FillTrade(order, tOrd, tSize))]

\* OrderBook.handleMarketOrder
handleMarketOrder(order, bid, ask) ==
    LET out == marketLoop(order, IF order.side = Buy THEN ask ELSE bid,
                          order.size, <<>>)
    IN [bid |-> IF order.side = Buy THEN bid ELSE out.target,
        ask |-> IF order.side = Buy THEN out.target ELSE ask,
        trades |-> out.trades, panic |-> FALSE]

\* bookAddOrder with Market in the first case of the switch
bookAddOrderOneCase(order, bid, ask) ==
    CASE order.type \in {Limit, FOK, IOC, PostOnly, Cancel, Market} ->
            handleOrder(order, bid, ask)
      [] OTHER -> [bid |-> bid, ask |-> ask, trades |-> <<>>, panic |-> FALSE]

\* the type switch of OrderBook.addOrder
bookAddOrder(order, bid, ask) ==
    CASE order.type \in {Limit, FOK, IOC, PostOnly, Cancel} ->
            handleOrder(order, bid, ask)
      [] order.type = Market -> handleMarketOrder(order, bid, ask)
      [] OTHER -> [bid |-> bid, ask |-> ask, trades |-> <<>>, panic |-> FALSE]

\* bookCancelOrder taking the best bid when the id is not on the ask side
bookCancelOrderBestBid(id, bid, ask) ==
    LET a == queueOrder(ask, id) IN
    IF a # Nil THEN [bid |-> bid, ask |-> removeOrder(ask, a.price, id)]
    ELSE IF bid # <<>> THEN [bid |-> popHeadOrder(bid), ask |-> ask]
    ELSE [bid |-> bid, ask |-> ask]

\* bookCancelOrder looking on the bid side first
bookCancelOrderBidFirst(id, bid, ask) ==
    LET a == queueOrder(ask, id)
        b == queueOrder(bid, id) IN
    IF b # Nil THEN [bid |-> removeOrder(bid, b.price, id), ask |-> ask]
    ELSE IF a # Nil THEN [bid |-> bid, ask |-> removeOrder(ask, a.price, id)]
    ELSE [bid |-> bid, ask |-> ask]

\* OrderBook.cancelOrder: the ask side first, then the bid side
bookCancelOrder(id, bid, ask) ==
    LET a == queueOrder(ask, id)
        b == queueOrder(bid, id) IN
    IF a # Nil THEN [bid |-> bid, ask |-> removeOrder(ask, a.price, id)]
    ELSE IF b # Nil THEN [bid |-> removeOrder(bid, b.price, id), ask |-> ask]
    ELSE [bid |-> bid, ask |-> ask]

\* ------------------------------------------------------------------ state
\* queue.depth(limit): (price, total size) of the best limit levels
queueDepth(q, limit) ==
    [i \in 1..(IF Len(q) < limit THEN Len(q) ELSE limit) |->
        [price |-> q[i].price, size |-> q[i].totalSize]]

\* OrderBook.depth
bookDepth(limit, bid, ask) ==
    [asks |-> queueDepth(ask, limit), bids |-> queueDepth(bid, limit)]

VARIABLES
    bidQueue,     \* book.bidQueue: levels, best first
    askQueue,     \* book.askQueue
    orderChan,    \* book.orderChan: orders sent and not yet received
    cancelChan,   \* book.cancelChan
    published,    \* the batches PublishTrades has been called with
    alive,        \* the goroutine running Start has not panicked
    cmds,         \* every command sent, in the order of the sends (and the
                  \* calls that timed out, marked as such)
    processed,    \* the commands the loop has received, in that order
    last,         \* the command the loop handled last, or is handling, with
                  \* the book before it
    depthChan,    \* book.depthChan
    depthCalls,   \* the calls of Depth that sent a request, by command number
    started,      \* Start has been called
    ret           \* the last call of AddOrder, CancelOrder or Depth that returned

vars == <<bidQueue, askQueue, orderChan, cancelChan, published, alive, cmds,
          processed, last, depthChan, depthCalls, started, ret>>

NoLast == [kind |-> "none"]

NoCall == [pc |-> "idle"]

NoRet == [api |-> "none"]

ErrInvalidParam == "ErrInvalidParam"
ErrTimeout == "ErrTimeout"

Init ==
    /\ bidQueue = <<>>
    /\ askQueue = <<>>
    /\ orderChan = <<>>
    /\ cancelChan = <<>>
    /\ published = <<>>
    /\ alive = TRUE
    /\ cmds = <<>>
    /\ processed = <<>>
    /\ last = NoLast
    /\ depthChan = <<>>
    /\ depthCalls = [s \in 1..MaxCmds |-> NoCall]
    /\ started = TRUE
    /\ ret = NoRet

\* NewOrderBook alone: no goroutine runs Start yet
InitIdle ==
    /\ bidQueue = <<>>
    /\ askQueue = <<>>
    /\ orderChan = <<>>
    /\ cancelChan = <<>>
    /\ published = <<>>
    /\ alive = TRUE
    /\ cmds = <<>>
    /\ processed = <<>>
    /\ last = NoLast
    /\ depthChan = <<>>
    /\ depthCalls = [s \in 1..MaxCmds |-> NoCall]
    /\ started = FALSE
    /\ ret = NoRet

\* the orders callers submit: the id is the number of the command
NewOrder(type, side, price, size) ==
    [id |-> Len(cmds) + 1, side |-> side, price |-> price, size |-> size,
     type |-> type]

\* AddOrderCtx whose ctx.Done case sends the order all the same
AddOrderCtxSending(order, ctxDone) ==
    /\ alive
    /\ Len(cmds) < MaxCmds
    /\ Len(order.type) # 0 /\ order.id # 0
    /\ Len(orderChan) < ChanCap
    /\ orderChan' = Append(orderChan, order)
    /\ IF ctxDone
       THEN /\ cmds' = Append(cmds, [kind |-> "addTimeout", order |-> order])
            /\ ret' = [api |-> "AddOrder", order |-> order,
                       seq |-> Len(cmds) + 1, err |-> ErrTimeout]
       ELSE /\ cmds' = Append(cmds, [kind |-> "add", order |-> order])
            /\ ret' = [api |-> "AddOrder", order |-> order,
                       seq |-> Len(cmds) + 1, err |-> "nil"]
    /\ UNCHANGED <<bidQueue, askQueue, cancelChan, published, alive,
                   processed, last, depthChan, depthCalls, started>>

\* OrderBook.AddOrder; the empty id is 0.  The select takes the send when
\* orderChan has room and may take ctx.Done when the context is done; a
\* call that returns ErrTimeout is kept in cmds as "addTimeout"
AddOrderCtx(order, ctxDone) ==
    /\ alive
    /\ Len(cmds) < MaxCmds
    /\ IF Len(order.type) = 0 \/ order.id = 0
       THEN /\ ret' = [api |-> "AddOrder", order |-> order, seq |-> 0,
                       err |-> ErrInvalidParam]
            /\ UNCHANGED <<orderChan, cmds>>
       ELSE \/ /\ Len(orderChan) < ChanCap
               /\ orderChan' = Append(orderChan, order)
               /\ cmds' = Append(cmds, [kind |-> "add", order |-> order])
               /\ ret' = [api |-> "AddOrder", order |-> order,
                          seq |-> Len(cmds) + 1, err |-> "nil"]
            \/ /\ ctxDone
               /\ cmds' = Append(cmds,
                                 [kind |-> "addTimeout", order |-> order])
               /\ ret' = [api |-> "AddOrder", order |-> order,
                          seq |-> Len(cmds) + 1, err |-> ErrTimeout]
               /\ UNCHANGED orderChan
    /\ UNCHANGED <<bidQueue, askQueue, cancelChan, published, alive,
                   processed, last, depthChan, depthCalls, started>>

\* OrderBook.AddOrder with a context that is not done
AddOrder(order) == AddOrderCtx(order, FALSE)

\* CancelOrder that also removes the order itself, in the caller's goroutine
CancelOrderDirect(id) ==
    /\ alive
    /\ Len(cmds) < MaxCmds
    /\ id # 0
    /\ Len(cancelChan) < ChanCap
    /\ cancelChan' = Append(cancelChan, [seq |-> Len(cmds) + 1, id |-> id])
    /\ cmds' = Append(cmds, [kind |-> "cancel", id |-> id])
    /\ ret' = [api |-> "CancelOrder", id |-> id, seq |-> Len(cmds) + 1,
               err |-> "nil"]
    /\ bidQueue' = bookCancelOrder(id, bidQueue, askQueue).bid
    /\ askQueue' = bookCancelOrder(id, bidQueue, askQueue).ask
    /\ UNCHANGED <<orderChan, published, alive, processed, last, depthChan,
                   depthCalls, started>>

\* OrderBook.CancelOrder; the empty id is 0.  A call that returns
\* ErrTimeout is kept in cmds as "cancelTimeout"
CancelOrderCtx(id, ctxDone) ==
    /\ alive
    /\ Len(cmds) < MaxCmds
    /\ IF id = 0
       THEN /\ ret' = [api |-> "CancelOrder", id |-> id, seq |-> 0,
                       err |-> "nil"]
            /\ UNCHANGED <<cancelChan, cmds>>
       ELSE \/ /\ Len(cancelChan) < ChanCap
               /\ cancelChan' = Append(cancelChan,
                                       [seq |-> Len(cmds) + 1, id |-> id])
               /\ cmds' = Append(cmds, [kind |-> "cancel", id |-> id])
               /\ ret' = [api |-> "CancelOrder", id |-> id,
                          seq |-> Len(cmds) + 1, err |-> "nil"]
            \/ /\ ctxDone
               /\ cmds' = Append(cmds, [kind |-> "cancelTimeout", id |-> id])
               /\ ret' = [api |-> "CancelOrder", id |-> id,
                          seq |-> Len(cmds) + 1, err |-> ErrTimeout]
               /\ UNCHANGED cancelChan
    /\ UNCHANGED <<bidQueue, askQueue, orderChan, published, alive,
                   processed, last, depthChan, depthCalls, started>>

\* OrderBook.CancelOrder of a non-empty id with a context that is not done
CancelOrder(id) == id # 0 /\ CancelOrderCtx(id, FALSE)

\* Depth whose caller takes time.After once the request is sent, and is gone
DepthGivingUp(limit) ==
    /\ alive
    /\ Len(cmds) < MaxCmds
    /\ limit # 0
    /\ Len(depthChan) < ChanCap
    /\ depthChan' = Append(depthChan, [seq |-> Len(cmds) + 1, limit |-> limit])
    /\ depthCalls' = [depthCalls EXCEPT ![Len(cmds) + 1] =
                         [pc |-> "gone", limit |-> limit]]
    /\ cmds' = Append(cmds, [kind |-> "depth", limit |-> limit])
    /\ ret' = [api |-> "Depth", limit |-> limit, err |-> ErrTimeout]
    /\ UNCHANGED <<bidQueue, askQueue, orderChan, cancelChan, published,
                   alive, processed, last, started>>

\* OrderBook.Depth up to the send of the request: time.After is taken only
\* while the send cannot proceed; after the send the caller waits on msg.Resp
Depth(limit) ==
    /\ alive
    /\ Len(cmds) < MaxCmds
    /\ IF limit = 0
       THEN /\ ret' = [api |-> "Depth", limit |-> limit,
                       err |-> ErrInvalidParam]
            /\ UNCHANGED <<depthChan, depthCalls, cmds>>
       ELSE IF Len(depthChan) < ChanCap
       THEN /\ depthChan' = Append(depthChan,
                                   [seq |-> Len(cmds) + 1, limit |-> limit])
            /\ depthCalls' = [depthCalls EXCEPT ![Len(cmds) + 1] =
                                 [pc |-> "waiting", limit |-> limit]]
            /\ cmds' = Append(cmds, [kind |-> "depth", limit |-> limit])
            /\ UNCHANGED ret
       ELSE /\ ret' = [api |-> "Depth", limit |-> limit, err |-> ErrTimeout]
            /\ UNCHANGED <<depthChan, depthCalls, cmds>>
    /\ UNCHANGED <<bidQueue, askQueue, orderChan, cancelChan, published,
                   alive, processed, last, started>>

\* go book.Start()
StartLoop ==
    /\ ~started
    /\ started' = TRUE
    /\ UNCHANGED <<bidQueue, askQueue, orderChan, cancelChan, published,
                   alive, cmds, processed, last, depthChan, depthCalls, ret>>

\* Start: case msg := <-book.depthChan, the reply on msg.Resp, and the
\* return of the caller that waits on it
LoopDepth ==
    /\ started
    /\ alive
    /\ depthChan # <<>>
    /\ LET msg == Head(depthChan)
           result == bookDepth(msg.limit, bidQueue, askQueue) IN
       /\ depthChan' = Tail(depthChan)
       /\ depthCalls' = [depthCalls EXCEPT ![msg.seq] =
                            [pc |-> "returned", limit |-> msg.limit,
                             data |-> result]]
       /\ processed' = Append(processed, msg.seq)
       /\ last' = [kind |-> "depth", seq |-> msg.seq, limit |-> msg.limit,
                   bid |-> bidQueue, ask |-> askQueue, trades |-> <<>>,
                   panic |-> FALSE, data |-> result]
       /\ ret' = [api |-> "Depth", limit |-> msg.limit, err |-> "nil",
                  data |-> result]
    /\ UNCHANGED <<bidQueue, askQueue, orderChan, cancelChan, published,
                   alive, cmds, started>>

\* publishTrades putting the batch before the batches published so far
publishTradesPrepending(pub, trades) ==
    IF Len(trades) > 0 THEN <<trades>> \o pub ELSE pub

\* publishTrades without the test of len(trades)
publishTradesAlways(pub, trades) == Append(pub, trades)

\* addOrder: if len(trades) > 0, book.publishTrader.PublishTrades(trades...)
publishTrades(pub, trades) ==
    IF Len(trades) > 0 THEN Append(pub, trades) ELSE pub

\* Start: case order := <-book.orderChan, then book.addOrder(order)
LoopAdd ==
    /\ started
    /\ alive
    /\ orderChan # <<>>
    /\ LET order == Head(orderChan)
           out == bookAddOrder(order, bidQueue, askQueue) IN
       /\ orderChan' = Tail(orderChan)
       /\ bidQueue' = out.bid
       /\ askQueue' = out.ask
       /\ alive' = ~out.panic
       /\ published' = IF out.panic THEN published
                       ELSE publishTrades(published, out.trades)
       /\ processed' = Append(processed, order.id)
       /\ last' = [kind |-> "add", seq |-> order.id, order |-> order,
                   bid |-> bidQueue, ask |-> askQueue,
                   trades |-> out.trades, panic |-> out.panic]
    /\ UNCHANGED <<cancelChan, cmds, depthChan, depthCalls, started, ret>>

\* LoopCancel handing an empty batch to the publisher
LoopCancelPublishing ==
    /\ started
    /\ alive
    /\ cancelChan # <<>>
    /\ LET c == Head(cancelChan)
           out == bookCancelOrder(c.id, bidQueue, askQueue) IN
       /\ cancelChan' = Tail(cancelChan)
       /\ bidQueue' = out.bid
       /\ askQueue' = out.ask
       /\ published' = Append(published, <<>>)
       /\ processed' = Append(processed, c.seq)
       /\ last' = [kind |-> "cancel", seq |-> c.seq, id |-> c.id,
                   bid |-> bidQueue, ask |-> askQueue,
                   trades |-> <<>>, panic |-> FALSE]
    /\ UNCHANGED <<orderChan, alive, cmds, depthChan, depthCalls,
                   started, ret>>

\* Start: case orderID := <-book.cancelChan, then book.cancelOrder(orderID)
LoopCancel ==
    /\ started
    /\ alive
    /\ cancelChan # <<>>
    /\ LET c == Head(cancelChan)
           out == bookCancelOrder(c.id, bidQueue, askQueue) IN
       /\ cancelChan' = Tail(cancelChan)
       /\ bidQueue' = out.bid
       /\ askQueue' = out.ask
       /\ processed' = Append(processed, c.seq)
       /\ last' = [kind |-> "cancel", seq |-> c.seq, id |-> c.id,
                   bid |-> bidQueue, ask |-> askQueue,
                   trades |-> <<>>, panic |-> FALSE]
    /\ UNCHANGED <<orderChan, published, alive, cmds, depthChan, depthCalls,
                   started, ret>>

Submit(types) ==
    \E t \in types, s \in Sides, p \in Prices, z \in Sizes :
        AddOrder(NewOrder(t, s, p, z))

SubmitCancel == \E id \in 1..MaxCmds : CancelOrder(id)

Next ==
    \/ Submit(AllTypes)
    \/ SubmitCancel
    \/ LoopAdd
    \/ LoopCancel

Spec == Init /\ [][Next]_vars

\* the same book without orders of type Cancel on the add path
NextTrading ==
    \/ Submit(BookTypes \cup {Market})
    \/ SubmitCancel
    \/ LoopAdd
    \/ LoopCancel

SpecTrading == Init /\ [][NextTrading]_vars

\* Limit, IOC, FOK and PostOnly adds only, no cancels
NextAdds ==
    \/ Submit(BookTypes)
    \/ LoopAdd

SpecAdds == Init /\ [][NextAdds]_vars

\* the orders a caller of AddOrder can pass: any id (0 is the empty id),
\* any type ("" is the empty type), any size
AnySizes == {0 - Unit, 0} \cup Sizes

SubmitAny ==
    \E id \in {0, Len(cmds) + 1}, t \in {"", Limit}, s \in Sides,
       p \in Prices, z \in AnySizes :
        AddOrder([id |-> id, side |-> s, price |-> p, size |-> z, type |-> t])

NextInputs ==
    \/ SubmitAny
    \/ LoopAdd

SpecInputs == Init /\ [][NextInputs]_vars

\* Limit and Market orders with sizes of a few 10^-16
SubmitTicks(types) ==
    \E t \in types, s \in Sides, p \in Prices, z \in TickSizes :
        AddOrder(NewOrder(t, s, p, z))

NextTicks ==
    \/ SubmitTicks({Limit, Market})
    \/ LoopAdd

SpecTicks == Init /\ [][NextTicks]_vars

\* Limit adds and cancels, of the empty id too, with contexts that are done
\* or not
SubmitCtx ==
    \E s \in Sides, p \in Prices, z \in Sizes, ctxDone \in BOOLEAN :
        AddOrderCtx(NewOrder(Limit, s, p, z), ctxDone)

SubmitCancelCtx ==
    \E id \in 0..MaxCmds, ctxDone \in BOOLEAN : CancelOrderCtx(id, ctxDone)

NextCtx ==
    \/ SubmitCtx
    \/ SubmitCancelCtx
    \/ LoopAdd
    \/ LoopCancel

SpecCtx == Init /\ [][NextCtx]_vars

\* a type string the API hands over unchecked and the switch has no case for
UnknownType == "stop"

\* adds of the resting and immediate types and of an unknown type string
NextTypes ==
    \/ Submit({Limit, IOC, PostOnly, UnknownType})
    \/ LoopAdd

SpecTypes == Init /\ [][NextTypes]_vars

\* ------------------------------------------------- the loops, by iteration
\* one pass of the FOK walk (order_book.go 229-280) at element el of
\* targetQueue.depthList, order.Size being size
fokIter(order, tq, el, size) ==
    IF el > Len(tq)
    THEN [pc |-> "ret", el |-> el, size |-> size,
          trades |-> <<CancelTrade(order, size)>>]
    ELSE LET hit == FokLevelHit(order, size, tq[el])
             sz == IF hit THEN size - FokTake(tq[el]) ELSE size IN
         IF hit /\ sz = 0
         THEN [pc |-> "match", el |-> el, size |-> order.size, trades |-> <<>>]
         ELSE IF sz < 0
         THEN [pc |-> "ret", el |-> el, size |-> sz,
               trades |-> <<CancelTrade(order, sz)>>]
         ELSE [pc |-> "fok", el |-> el + 1, size |-> sz, trades |-> <<>>]

Pass(my, target, trades, size, pc) ==
    [my |-> my, target |-> target, trades |-> trades, size |-> size,
     pc |-> pc]

\* one pass of the matching loop of handleOrder (order_book.go 283-384)
matchIter(order, my, tq, size, trades) ==
    LET tside == Opp(order.side)
    IN
    IF tq = <<>>
    THEN CASE order.type \in {Limit, PostOnly} ->
                Pass(restOrder(my, order, size), tq, trades, size, "ret")
           [] order.type = IOC ->
                Pass(my, tq, Append(trades, CancelTrade(order, size)), size,
                     "ret")
           [] OTHER ->
                \* tOrd is nil and line 310 reads tOrd.Price
                Pass(my, tq, trades, size, "panic")
    ELSE LET tOrd == headOrder(tq)
             nocross == NotCross(order, tOrd)
             tq2 == IF nocross
                    THEN insertOrder(popHeadOrder(tq), tside, tOrd, TRUE)
                    ELSE popHeadOrder(tq)
         IN
         IF nocross /\ order.type \in {Limit, PostOnly}
         THEN Pass(restOrder(my, order, size), tq2, trades, size, "ret")
         ELSE IF nocross /\ order.type = IOC
         THEN Pass(my, tq2, Append(trades, CancelTrade(order, size)), size,
                   "ret")
         ELSE IF order.type = PostOnly
         THEN Pass(my, queueAddOrder(tq2, tside, tOrd),
                   Append(trades, CancelTrade(order, size)), size, "ret")
         ELSE IF size >= tOrd.size
         THEN LET sz == size - tOrd.size IN
              Pass(my, tq2, Append(trades, FillTrade(order, tOrd, tOrd.size)),
                   sz, IF sz = 0 THEN "ret" ELSE "match")
         ELSE LET left == tOrd.size - size IN
              Pass(my,
                   insertOrder(setSize(tq2, tOrd.id, left), tside,
                               [tOrd EXCEPT !.size = left], TRUE),
                   Append(trades, FillTrade(order, tOrd, size)), size, "ret")

\* one pass of the loop of handleMarketOrder (order_book.go 397-451)
marketIter(order, my, tq, size, trades) ==
    IF tq = <<>>
    THEN Pass(my, tq, Append(trades, CancelTrade(order, size)), size, "ret")
    ELSE LET tOrd == headOrder(tq)
             tq2 == popHeadOrder(tq)
             amount == DecMul(tOrd.price, tOrd.size)
         IN
         IF size >= amount
         THEN LET sz == size - amount IN
              Pass(my, tq2, Append(trades, FillTrade(order, tOrd, tOrd.size)),
                   sz, IF sz = 0 THEN "ret" ELSE "market")
         ELSE LET tSize == DecDiv(size, tOrd.price)
                  left == tOrd.size - tSize IN
              Pass(my,
                   insertOrder(setSize(tq2, tOrd.id, left), Opp(order.side),
                               [tOrd EXCEPT !.size = left], TRUE),
                   Append(trades, FillTrade(order, tOrd, tSize)), size, "ret")

\* the trades one add is followed to; an add that ends emits fewer
MaxTrades == MaxCmds + MaxSize

Adding(pc) == last.kind = "adding" /\ last.pc = pc

MyQueue == IF last.order.side = Buy THEN bidQueue ELSE askQueue
TargetQueue == IF last.order.side = Buy THEN askQueue ELSE bidQueue

\* Start: case order := <-book.orderChan, and the switch of addOrder
LoopAddBegin ==
    /\ started
    /\ alive
    /\ last.kind # "adding"
    /\ orderChan # <<>>
    /\ LET order == Head(orderChan) IN
       /\ orderChan' = Tail(orderChan)
       /\ last' = [kind |-> "adding", seq |-> order.id, order |-> order,
                   bid |-> bidQueue, ask |-> askQueue, trades |-> <<>>,
                   size |-> order.size, el |-> 1,
                   pc |-> CASE order.type = FOK -> "fok"
                            [] order.type \in {Limit, IOC, PostOnly, Cancel}
                                  -> "match"
                            [] order.type = Market -> "market"
                            [] OTHER -> "ret"]
    /\ UNCHANGED <<bidQueue, askQueue, cancelChan, published, alive, cmds,
                   processed, depthChan, depthCalls, started, ret>>

\* one pass of the FOK walk
LoopAddFok ==
    /\ alive
    /\ Adding("fok")
    /\ LET it == fokIter(last.order, TargetQueue, last.el, last.size) IN
       last' = [last EXCEPT !.pc = it.pc, !.el = it.el, !.size = it.size,
                            !.trades = it.trades]
    /\ UNCHANGED <<bidQueue, askQueue, orderChan, cancelChan, published,
                   alive, cmds, processed, depthChan, depthCalls, started,
                   ret>>

\* the pass it leaves in the book and in last; a nil dereference ends the
\* goroutine
TakePass(it) ==
    /\ bidQueue' = IF last.order.side = Buy THEN it.my ELSE it.target
    /\ askQueue' = IF last.order.side = Buy THEN it.target ELSE it.my
    /\ IF it.pc = "panic"
       THEN /\ alive' = FALSE
            /\ processed' = Append(processed, last.seq)
            /\ last' = [kind |-> "add", seq |-> last.seq,
                        order |-> last.order, bid |-> last.bid,
                        ask |-> last.ask, trades |-> it.trades,
                        panic |-> TRUE]
       ELSE /\ last' = [last EXCEPT !.pc = it.pc, !.size = it.size,
                                    !.trades = it.trades]
            /\ UNCHANGED <<alive, processed>>
    /\ UNCHANGED <<orderChan, cancelChan, published, cmds, depthChan,
                   depthCalls, started, ret>>

\* one pass of the matching loop of handleOrder
LoopAddMatch ==
    /\ alive
    /\ Adding("match")
    /\ Len(last.trades) < MaxTrades
    /\ TakePass(matchIter(last.order, MyQueue, TargetQueue, last.size,
                          last.trades))

\* one pass of the loop of handleMarketOrder
LoopAddMarket ==
    /\ alive
    /\ Adding("market")
    /\ Len(last.trades) < MaxTrades
    /\ TakePass(marketIter(last.order, MyQueue, TargetQueue, last.size,
                           last.trades))

\* the handler has returned: addOrder publishes the trades, if any
LoopAddEnd ==
    /\ alive
    /\ Adding("ret")
    /\ published' = publishTrades(published, last.trades)
    /\ processed' = Append(processed, last.seq)
    /\ last' = [kind |-> "add", seq |-> last.seq, order |-> last.order,
                bid |-> last.bid, ask |-> last.ask, trades |-> last.trades,
                panic |-> FALSE]
    /\ UNCHANGED <<bidQueue, askQueue, orderChan, cancelChan, alive, cmds,
                   depthChan, depthCalls, started, ret>>

\* adds of the types that reach the handlers, sizes of a few 10^-16, the
\* loop followed pass by pass
NextSteps ==
    \/ SubmitTicks({Limit, FOK, Market, Cancel})
    \/ LoopAddBegin
    \/ LoopAddFok
    \/ LoopAddMatch
    \/ LoopAddMarket
    \/ LoopAddEnd

SpecSteps == Init /\ [][NextSteps]_vars

\* the goroutine that runs Start keeps running
SpecStepsFair ==
    /\ Init
    /\ [][NextSteps]_vars
    /\ WF_vars(LoopAddFok)
    /\ WF_vars(LoopAddMatch)
    /\ WF_vars(LoopAddMarket)
    /\ WF_vars(LoopAddEnd)

DepthLimits == 0..MaxLevel

SubmitDepth == \E limit \in DepthLimits : Depth(limit)

\* a book of Limit orders, cancels and Depth calls, from NewOrderBook on
NextDepth ==
    \/ Submit({Limit})
    \/ SubmitCancel
    \/ SubmitDepth
    \/ StartLoop
    \/ LoopAdd
    \/ LoopCancel
    \/ LoopDepth

SpecDepth == InitIdle /\ [][NextDepth]_vars

\* Limit and Market orders with sizes of a few 10^-16, and Depth calls
NextDepthTicks ==
    \/ SubmitTicks({Limit, Market})
    \/ SubmitDepth
    \/ LoopAdd
    \/ LoopDepth

SpecDepthTicks == Init /\ [][NextDepthTicks]_vars

\* callers that choose the ids themselves, the empty id and ids in use
\* included: AddOrder and CancelOrder do not look at the book
CallerIds == 1..2

SubmitIds ==
    \E id \in CallerIds, s \in Sides, p \in Prices, z \in Sizes :
        AddOrder([id |-> id, side |-> s, price |-> p, size |-> z,
                  type |-> Limit])

SubmitCancelIds == \E id \in {0} \cup CallerIds : CancelOrderCtx(id, FALSE)

NextIds ==
    \/ SubmitIds
    \/ SubmitCancelIds
    \/ LoopAdd
    \/ LoopCancel

SpecIds == Init /\ [][NextIds]_vars

\* ------------------------------------------ the depth case, send by send
\* the loop is in its select, not inside a case
LoopFree == last.kind \notin {"adding", "replying"}

\* Start: case msg := <-book.depthChan, up to the reply being built
LoopDepthTake ==
    /\ started
    /\ alive
    /\ LoopFree
    /\ depthChan # <<>>
    /\ LET msg == Head(depthChan) IN
       /\ depthChan' = Tail(depthChan)
       /\ last' = [kind |-> "replying", seq |-> msg.seq, limit |-> msg.limit,
                   bid |-> bidQueue, ask |-> askQueue, trades |-> <<>>,
                   panic |-> FALSE,
                   data |-> bookDepth(msg.limit, bidQueue, askQueue)]
    /\ UNCHANGED <<bidQueue, askQueue, orderChan, cancelChan, published,
                   alive, cmds, processed, depthCalls, started, ret>>

\* msg.Resp <- &resp meeting resp := <-msg.Resp of the caller: the channel
\* is unbuffered, so the send needs the caller at its receive
LoopDepthReply ==
    /\ alive
    /\ last.kind = "replying"
    /\ depthCalls[last.seq].pc = "waiting"
    /\ depthCalls' = [depthCalls EXCEPT ![last.seq] =
                         [pc |-> "returned", limit |-> last.limit,
                          data |-> last.data]]
    /\ processed' = Append(processed, last.seq)
    /\ last' = [last EXCEPT !.kind = "depth"]
    /\ ret' = [api |-> "Depth", limit |-> last.limit, err |-> "nil",
               data |-> last.data]
    /\ UNCHANGED <<bidQueue, askQueue, orderChan, cancelChan, depthChan,
                   published, alive, cmds, started>>

\* the order case, taken by the select only
LoopAddFree == LoopFree /\ LoopAdd

\* Limit adds and Depth calls, the depth case of the loop in its two steps
NextHandshake ==
    \/ Submit({Limit})
    \/ SubmitDepth
    \/ LoopAddFree
    \/ LoopDepthTake
    \/ LoopDepthReply

\* the goroutine that runs Start keeps running
SpecHandshake ==
    /\ Init
    /\ [][NextHandshake]_vars
    /\ WF_vars(LoopDepthTake)
    /\ WF_vars(LoopDepthReply)

\* the loop, once started, takes what is ready; nothing obliges anyone to
\* call Start or to send a command
SpecDepthFair ==
    /\ InitIdle
    /\ [][NextDepth]_vars
    /\ WF_vars(LoopAdd)
    /\ WF_vars(LoopCancel)
    /\ WF_vars(LoopDepth)

\* ------------------------------------------------------------ observation
RECURSIVE SumSizes(_)
SumSizes(s) == IF s = <<>> THEN 0 ELSE Head(s).size + SumSizes(Tail(s))

RECURSIVE Flatten(_)
Flatten(ss) == IF ss = <<>> THEN <<>> ELSE Head(ss) \o Flatten(Tail(ss))

\* all resting orders of a queue, best level first, front of a level first
RECURSIVE Resting(_)
Resting(q) == IF q = <<>> THEN <<>> ELSE Head(q).list \o Resting(Tail(q))

RestingIds(q) == {Resting(q)[i].id : i \in 1..Len(Resting(q))}

AllTrades == Flatten(published)

SideOf(id) == cmds[id].order.side

LastAdd(type) == last.kind = "add" /\ last.order.type = type

\* the queues the last add saw as its own and as its opposite side
PreTarget == IF last.order.side = Buy THEN last.ask ELSE last.bid
PreMy == IF last.order.side = Buy THEN last.bid ELSE last.ask
PostTarget == IF last.order.side = Buy THEN askQueue ELSE bidQueue
PostMy == IF last.order.side = Buy THEN bidQueue ELSE askQueue

Crosses(order, price) ==
    IF order.side = Buy THEN order.price >= price ELSE order.price <= price

\* the size resting on q at prices the order crosses
CrossVolume(order, q) ==
    SumSizes(SelectSeq(Resting(q), LAMBDA o : Crosses(order, o.price)))

FullyFilled ==
    /\ ~last.panic
    /\ \A i \in 1..Len(last.trades) : ~last.trades[i].isCancel
    /\ SumSizes(last.trades) = last.order.size

\* ----------------------------------------------------------------- claims

\* C1: between commands, when both sides are non-empty the best bid price
\* is strictly below the best ask price.
C1_NotCrossed ==
    (bidQueue # <<>> /\ askQueue # <<>>) =>
        bidQueue[1].price < askQueue[1].price

\* a Limit order took from the opposite side and rested, both sides non-empty
C1_Witness ==
    /\ LastAdd(Limit)
    /\ Len(last.trades) > 0
    /\ last.order.id \in RestingIds(PostMy)
    /\ bidQueue # <<>> /\ askQueue # <<>>

\* the adds the loop has handled, as submitted, of one side
ProcessedAdds(side) ==
    SelectSeq(cmds, LAMBDA c : c.kind = "add" /\ c.order.side = side
                               /\ \E i \in 1..Len(processed) :
                                     processed[i] = c.order.id)

RECURSIVE SumOrders(_)
SumOrders(cs) ==
    IF cs = <<>> THEN 0 ELSE Head(cs).order.size + SumOrders(Tail(cs))

\* C2: per side, the submitted sizes of the handled orders equal the resting
\* sizes plus the sizes of the fills an order of the side took part in plus
\* the sizes of the is_cancel events of the side's orders.
C2_Conservation ==
    \A side \in Sides :
        SumOrders(ProcessedAdds(side)) =
            SumSizes(Resting(IF side = Buy THEN bidQueue ELSE askQueue))
            + SumSizes(SelectSeq(AllTrades, LAMBDA t :
                  ~t.isCancel /\ (SideOf(t.taker) = side \/ SideOf(t.maker) = side)))
            + SumSizes(SelectSeq(AllTrades, LAMBDA t :
                  t.isCancel /\ SideOf(t.taker) = side))

\* position of an order in the list of its level, 0 when it is not resting
PosIn(q, id) ==
    LET r == Resting(q) IN
    IF \E i \in 1..Len(r) : r[i].id = id
    THEN CHOOSE i \in 1..Len(r) : r[i].id = id
    ELSE 0

\* the last command kept price-time priority on queue pre (now post)
FifoKept(pre, post) ==
    \A l \in 1..Len(pre) : \A i, j \in 1..Len(pre[l].list) :
        i < j =>
            LET a == pre[l].list[i].id
                b == pre[l].list[j].id IN
            \* B was filled only after A was consumed whole
            /\ (\E k \in 1..Len(last.trades) :
                    ~last.trades[k].isCancel /\ last.trades[k].maker = b)
                => PosIn(post, a) = 0
            \* survivors keep their order
            /\ (PosIn(post, a) # 0 /\ PosIn(post, b) # 0)
                => PosIn(post, a) < PosIn(post, b)

\* C3: of two orders resting at one price, the one that entered the level
\* first is filled first, and a head that is filled in part or popped and
\* put back stays at the front of its level.
C3_Fifo ==
    last.kind # "none" =>
        FifoKept(last.bid, bidQueue) /\ FifoKept(last.ask, askQueue)

LevelsConsistent(q) ==
    \A l \in 1..Len(q) : q[l].totalSize = SumSizes(q[l].list)

\* C4: after every handled command every level's totalSize is the sum of
\* the sizes of the orders in its list.
C4_TotalSize == LevelsConsistent(bidQueue) /\ LevelsConsistent(askQueue)

\* C5: a FOK order facing at least its size of crossing volume is filled
\* completely.
C5_FokFeasible ==
    (LastAdd(FOK) /\ CrossVolume(last.order, PreTarget) >= last.order.size)
        => FullyFilled

\* C6: a FOK order facing less than its size of crossing volume gets one
\* is_cancel event for its submitted size and leaves the book as it was.
C6_FokInfeasible ==
    (LastAdd(FOK) /\ CrossVolume(last.order, PreTarget) < last.order.size)
        => /\ last.trades = <<CancelTrade(last.order, last.order.size)>>
           /\ bidQueue = last.bid
           /\ askQueue = last.ask

NoRestingOfType(type) ==
    \A o \in {Resting(bidQueue)[i] : i \in 1..Len(Resting(bidQueue))}
          \cup {Resting(askQueue)[i] : i \in 1..Len(Resting(askQueue))} :
        o.type # type

\* C7: a FOK order that passes the feasibility walk is filled completely,
\* by makers at crossing prices only, with no is_cancel event, and no FOK
\* order ever rests.
C7_FokAllOrNothing ==
    /\ NoRestingOfType(FOK)
    /\ (LastAdd(FOK) /\ fokWalk(last.order, PreTarget, 1, last.order.size).ok)
        => /\ FullyFilled
           /\ \A i \in 1..Len(last.trades) :
                  Crosses(last.order, last.trades[i].price)
           /\ PostMy = PreMy

\* a FOK order passed the walk and took from two makers
C7_Witness ==
    /\ LastAdd(FOK)
    /\ fokWalk(last.order, PreTarget, 1, last.order.size).ok
    /\ Len(last.trades) = 2

\* C8: a PostOnly order that meets a crossing head gets one is_cancel event
\* for its size, does not rest and leaves the opposite side exactly as it
\* was, the order inside every level included.
C8_PostOnlyReject ==
    (LastAdd(PostOnly) /\ PreTarget # <<>>
        /\ Crosses(last.order, headOrder(PreTarget).price))
        => /\ last.trades = <<CancelTrade(last.order, last.order.size)>>
           /\ PostMy = PreMy
           /\ PostTarget = PreTarget

\* C9: an order of type Cancel sent through the add path produces no fill
\* and leaves both sides of the book as they were.
C9_CancelTypeNoMatch ==
    LastAdd(Cancel) =>
        /\ \A i \in 1..Len(last.trades) : last.trades[i].isCancel
        /\ bidQueue = last.bid
        /\ askQueue = last.ask

\* C10: the loop handles the commands in the order of their sends, across
\* the add and the cancel channel.
C10_EnqueueOrder ==
    \A i, j \in 1..Len(processed) : i < j => processed[i] < processed[j]

\* ------------------------------------------------------------------- C11
\* the book after the first n commands sent, handled in the order of the
\* sends
RECURSIVE ReplayBook(_)
ReplayBook(n) ==
    IF n = 0 THEN [bid |-> <<>>, ask |-> <<>>]
    ELSE LET b == ReplayBook(n - 1)
             c == cmds[n] IN
         IF c.kind = "add"
         THEN LET out == bookAddOrder(c.order, b.bid, b.ask) IN
              [bid |-> out.bid, ask |-> out.ask]
         ELSE IF c.kind = "cancel"
         THEN LET out == bookCancelOrder(c.id, b.bid, b.ask) IN
              [bid |-> out.bid, ask |-> out.ask]
         ELSE b

\* C11: the snapshot a Depth call returns is the depth of the book that
\* holds the effect of every add and cancel enqueued before the Depth
\* request and of no command enqueued after it.
C11_DepthReflectsEarlier ==
    last.kind = "depth" =>
        LET b == ReplayBook(last.seq - 1) IN
        last.data = bookDepth(last.limit, b.bid, b.ask)

\* ------------------------------------------------------------------- C12
\* C12: every Depth call with a positive limit returns, with the snapshot
\* or with Timeout, also when its request was enqueued while the command
\* loop is not running.
C12_DepthReturns ==
    \A s \in 1..MaxCmds :
        (depthCalls[s].pc = "waiting") ~> (depthCalls[s].pc = "returned")

\* ------------------------------------------------------------------- C13
InvalidOrder(order) ==
    order.id = 0 \/ Len(order.type) = 0 \/ order.size <= 0

\* C13: AddOrder returns InvalidParam and enqueues nothing whenever the
\* order's id is empty, its type is empty, or its size is zero or negative.
C13_InvalidRejected ==
    /\ (ret.api = "AddOrder" /\ InvalidOrder(ret.order))
           => ret.err = ErrInvalidParam
    /\ \A i \in 1..Len(cmds) :
           cmds[i].kind = "add" => ~InvalidOrder(cmds[i].order)

\* ------------------------------------------------------------------- C14
\* C14: after any sequence of commands no resting order has a size of zero
\* or less: an order is put on a level, or back on it, only with a strictly
\* positive remaining size.
C14_RestingPositive ==
    \A i \in 1..Len(Resting(bidQueue) \o Resting(askQueue)) :
        (Resting(bidQueue) \o Resting(askQueue))[i].size > 0

\* ------------------------------------------------------------------- C15
\* C15: every fill published carries the header of its taker: the taker's
\* side and the taker's type, with is_cancel false, whatever the type of
\* the taker (Limit, IOC, FOK or Market).
C15_FillHeader ==
    \A i \in 1..Len(AllTrades) :
        LET trade == AllTrades[i] IN
        ~trade.isCancel =>
            /\ trade.takerSide = cmds[trade.taker].order.side
            /\ trade.takerType = cmds[trade.taker].order.type

\* ------------------------------------------------------------------- C16
\* the orders resting on the opposite side before the last add
PreMakers == Resting(PreTarget)

\* C16: every fill is priced at the price of the maker it consumes, never
\* at the incoming order's price, and a Limit, IOC or FOK taker fills only
\* against makers whose price crosses its own.
C16_MakerPrice ==
    (last.kind = "add" /\ ~last.panic) =>
        \A i \in 1..Len(last.trades) :
            LET trade == last.trades[i] IN
            ~trade.isCancel =>
                \E j \in 1..Len(PreMakers) :
                    /\ PreMakers[j].id = trade.maker
                    /\ trade.price = PreMakers[j].price
                    /\ last.order.type \in {Limit, IOC, FOK}
                          => Crosses(last.order, PreMakers[j].price)

\* a Limit, IOC or FOK taker has filled a maker at a price other than
\* its own
C16_Witness ==
    /\ last.kind = "add"
    /\ last.order.type \in {Limit, IOC, FOK}
    /\ \E i \in 1..Len(last.trades) :
           /\ ~last.trades[i].isCancel
           /\ last.trades[i].price # last.order.price

\* ------------------------------------------------------------------- C17
\* the orders resting on q at one price, front first
AtPrice(q, price) == SelectSeq(Resting(q), LAMBDA o : o.price = price)

\* what the last add has left of its size after its fills
Remaining == last.order.size - SumSizes(last.trades)

\* the last add rests on its own side at its price with what remains of it,
\* behind the orders that were at that price before; the other prices of
\* its side are as before
RestsBehind ==
    /\ AtPrice(PostMy, last.order.price) =
           Append(AtPrice(PreMy, last.order.price),
                  [last.order EXCEPT !.size = Remaining])
    /\ \A p \in Prices \ {last.order.price} :
           AtPrice(PostMy, p) = AtPrice(PreMy, p)

\* C17: a Limit order that the crossing opposite liquidity does not fill
\* completely rests on its own side at its limit price with its submitted
\* size less its fills, behind the orders already at that level; a Limit
\* order filled completely leaves nothing resting on its side.
C17_LimitRests ==
    LastAdd(Limit) =>
        /\ ~last.panic
        /\ \A i \in 1..Len(last.trades) : ~last.trades[i].isCancel
        /\ Remaining >= 0
        /\ Remaining > 0 => RestsBehind
        /\ Remaining = 0 => PostMy = PreMy

\* a Limit order has been filled in part and rests with the rest
C17_Witness ==
    /\ LastAdd(Limit)
    /\ Len(last.trades) > 0
    /\ Remaining > 0
    /\ last.order.id \in RestingIds(PostMy)

\* ------------------------------------------------------------------- C18
LastFills == SelectSeq(last.trades, LAMBDA t : ~t.isCancel)
LastCancels == SelectSeq(last.trades, LAMBDA t : t.isCancel)
Unfilled == last.order.size - SumSizes(LastFills)

\* what handleOrder does with the last order, were its type Limit
AsLimit == handleOrder([last.order EXCEPT !.type = Limit], last.bid, last.ask)

\* C18: an IOC order is never rested; it fills as a Limit order of the same
\* side, price and size would; if any size remains, exactly one is_cancel
\* event follows the fills, with the unfilled size and the IOC's own id as
\* taker and maker; if it is filled completely there is no is_cancel event.
C18_IocNeverRests ==
    /\ NoRestingOfType(IOC)
    /\ LastAdd(IOC) =>
          /\ ~last.panic
          /\ PostMy = PreMy
          /\ LastFills = AsLimit.trades
          /\ PostTarget = IF last.order.side = Buy THEN AsLimit.ask
                                                  ELSE AsLimit.bid
          /\ Unfilled >= 0
          /\ Unfilled = 0 => LastCancels = <<>>
          /\ Unfilled > 0 =>
                /\ last.trades = Append(LastFills, last.trades[Len(last.trades)])
                /\ LastCancels = <<[taker |-> last.order.id,
                                    maker |-> last.order.id,
                                    takerSide |-> last.order.side,
                                    takerType |-> IOC,
                                    price |-> last.order.price,
                                    size |-> Unfilled,
                                    isCancel |-> TRUE]>>

\* an IOC has filled a maker in part of its own size and the rest of it
\* was cancelled
C18_Witness ==
    /\ LastAdd(IOC)
    /\ LastFills # <<>>
    /\ Unfilled > 0
    /\ Len(LastCancels) = 1

\* ------------------------------------------------------------------- C19
\* the opposite side was empty before the last add, or the last order's
\* price does not cross its best price
NoCrossAtHead ==
    \/ PreTarget = <<>>
    \/ ~Crosses(last.order, PreTarget[1].price)

RECURSIVE SumQuote(_, _)
SumQuote(trades, n) ==
    IF n = 0 THEN 0
    ELSE DecMul(trades[n].price, trades[n].size) + SumQuote(trades, n - 1)

\* the i-th fill of a Market order takes the i-th resting order of the
\* opposite side: whole when the quote amount left covers it, else for the
\* amount left, the maker staying at the front with its size reduced
MarketStep(i) ==
    LET maker == Resting(PreTarget)[i]
        left == last.order.size - SumQuote(LastFills, i - 1)
        fill == LastFills[i] IN
    /\ fill.maker = maker.id
    /\ IF left >= DecMul(maker.price, maker.size)
       THEN fill.size = maker.size
       ELSE /\ DecMul(maker.price, fill.size) = left
            /\ PostTarget # <<>>
            /\ Resting(PostTarget)[1] =
                   [maker EXCEPT !.size = maker.size - fill.size]

\* C20: a Market order conserves its quote amount: the sum of price x size
\* over its fills plus the size of its is_cancel event, if any, equals the
\* submitted amount; a head is consumed whole only when the amount left
\* covers head.price x head.size, otherwise the fill size is the amount
\* left divided by head.price and the head stays at the front, reduced.
C20_QuoteConserved ==
    LastAdd(Market) =>
        /\ SumQuote(LastFills, Len(LastFills)) + SumSizes(LastCancels)
              = last.order.size
        /\ Len(LastFills) <= Len(Resting(PreTarget))
        /\ \A i \in 1..Len(LastFills) : MarketStep(i)

\* ------------------------------------------------------------------- C21
\* the quote amount the last add has left after its fills
QuoteLeft == last.order.size - SumQuote(LastFills, Len(LastFills))

\* the is_cancel event of the last add for a size
LastCancelOf(size) ==
    [taker |-> last.order.id, maker |-> last.order.id,
     takerSide |-> last.order.side, takerType |-> last.order.type,
     price |-> last.order.price, size |-> size, isCancel |-> TRUE]

\* C21: a Market order is never rested on either side; if the opposite side
\* becomes empty before its quote amount is used up, exactly one is_cancel
\* event follows its fills, with the quote amount left; a Market order
\* against an empty opposite side emits only that event, with the full
\* amount.
C21_MarketNeverRests ==
    /\ NoRestingOfType(Market)
    /\ LastAdd(Market) =>
          /\ ~last.panic
          /\ PostMy = PreMy
          /\ Len(LastCancels) <= 1
          /\ (PostTarget = <<>> /\ QuoteLeft > 0) =>
                last.trades = Append(LastFills, LastCancelOf(QuoteLeft))
          /\ PreTarget = <<>> =>
                last.trades = <<LastCancelOf(last.order.size)>>

\* a Market order has consumed the whole opposite side and the amount it
\* had left was cancelled
C21_Witness ==
    /\ LastAdd(Market)
    /\ LastFills # <<>>
    /\ PostTarget = <<>>
    /\ QuoteLeft > 0
    /\ Len(LastCancels) = 1

\* ------------------------------------------------------------------- C22
\* the book as a pair, and the book a cancel of id makes of the present one
Book == [bid |-> bidQueue, ask |-> askQueue]
CancelAgain(id) == bookCancelOrder(id, bidQueue, askQueue)

\* the places at which id rested before the last command
RestedAt(id) ==
    {i \in 1..Len(Resting(last.bid) \o Resting(last.ask)) :
        (Resting(last.bid) \o Resting(last.ask))[i].id = id}

Without(s, i) == [k \in 1..(Len(s) - 1) |-> IF k < i THEN s[k] ELSE s[k + 1]]

\* the levels of q at prices other than price
OtherLevels(q, price) == SelectSeq(q, LAMBDA unit : unit.price # price)

\* post is pre without the one order id: the other orders keep their sizes
\* and their places, the other levels are as before, and the level of the
\* order is gone with its last order or else totals the order's size less
RemovedFrom(pre, post, id) ==
    \E i \in 1..Len(Resting(pre)) :
        LET o == Resting(pre)[i]
            l == LevelIndex(pre, o.price) IN
        /\ o.id = id
        /\ Resting(post) = Without(Resting(pre), i)
        /\ OtherLevels(post, o.price) = OtherLevels(pre, o.price)
        /\ IF Len(pre[l].list) = 1
           THEN LevelIndex(post, o.price) = 0
           ELSE /\ LevelIndex(post, o.price) # 0
                /\ post[LevelIndex(post, o.price)].totalSize
                      = pre[l].totalSize - o.size

\* the ids resting on a queue exactly once
RestingOnce(q, id) ==
    Cardinality({i \in 1..Len(Resting(q)) : Resting(q)[i].id = id}) = 1

\* the loop handles a cancel command
CancelStep == Len(processed') = Len(processed) + 1 /\ last'.kind = "cancel"

\* C23: processing cancel(id) for a resting order removes exactly that
\* order: its level's totalSize drops by the order's size, the level
\* disappears if it becomes empty, every other resting order keeps its size
\* and its place, the other side is untouched; and no cancel command makes
\* the loop call the publisher.
C23_CancelFrame ==
    [][CancelStep =>
          /\ published' = published
          /\ (RestingOnce(askQueue, last'.id)
                /\ last'.id \notin RestingIds(bidQueue))
                => (RemovedFrom(askQueue, askQueue', last'.id)
                      /\ bidQueue' = bidQueue)
          /\ (RestingOnce(bidQueue, last'.id)
                /\ last'.id \notin RestingIds(askQueue))
                => (RemovedFrom(bidQueue, bidQueue', last'.id)
                      /\ askQueue' = askQueue)]_vars

\* a cancel has removed one of two orders of a level
C23_Witness ==
    /\ last.kind = "cancel"
    /\ Cardinality(RestedAt(last.id)) = 1
    /\ \E i \in 1..Len(Resting(last.bid) \o Resting(last.ask)) :
          LET o == (Resting(last.bid) \o Resting(last.ask))[i] IN
          /\ o.id = last.id
          /\ LevelIndex(IF o.side = Buy THEN bidQueue ELSE askQueue,
                        o.price) # 0

\* ------------------------------------------------------------------- C24
\* the last command was the add of a Limit or PostOnly order that rests
\* without a fill or an is_cancel event
RestedUnfilled ==
    /\ last.kind = "add"
    /\ last.order.type \in {Limit, PostOnly}
    /\ ~last.panic
    /\ last.trades = <<>>
    /\ last.order.id \in RestingIds(PostMy)

MakerPlace(id) ==
    CHOOSE i \in 1..Len(PreMakers) :
        /\ PreMakers[i].id = id
        /\ \A k \in 1..(i - 1) : PreMakers[k].id # id

\* C25: trades are published in the FIFO order of the add commands: every
\* batch holds the events of one add, the batch of an add enqueued earlier
\* comes before the batch of one enqueued later, and within a batch the
\* events are in the order in which the fills occurred, best maker first.
C25_PublishFifo ==
    /\ \A i \in 1..Len(published) :
          /\ published[i] # <<>>
          /\ \A k \in 1..Len(published[i]) :
                published[i][k].taker = published[i][1].taker
    /\ \A i, j \in 1..Len(published) :
          i < j => published[i][1].taker < published[j][1].taker
    /\ (last.kind = "add" /\ ~last.panic /\ last.trades # <<>>) =>
          /\ published[Len(published)] = last.trades
          /\ \A i, j \in 1..Len(LastFills) :
                i < j => MakerPlace(LastFills[i].maker)
                            <= MakerPlace(LastFills[j].maker)

\* two adds have each had a batch published, the earlier one a batch of a
\* fill and an is_cancel event
C25_Witness ==
    /\ Len(published) = 2
    /\ Len(published[1]) = 2
    /\ last.kind = "add"
    /\ published[2] = last.trades

\* ------------------------------------------------------------------- C26
\* the loop handles an add command that does not end in a panic
AddStep ==
    /\ Len(processed') = Len(processed) + 1
    /\ last'.kind = "add"
    /\ ~last'.panic

\* C26: the publisher is called inside the command loop at most once per
\* add command, in the step that handles it and so before the next command
\* is dequeued, with the entire batch the command produced; it is not
\* called when the batch is empty, nor for a cancel or a depth command.
C26_PublishOncePerAdd ==
    [][IF AddStep /\ last'.trades # <<>>
       THEN /\ published' = Append(published, last'.trades)
            /\ last'.trades =
                  bookAddOrder(Head(orderChan), bidQueue, askQueue).trades
       ELSE published' = published]_vars

\* of three commands handled, an add that rested silently, an add that
\* filled and a depth request, one batch has been published
C26_Witness ==
    /\ Len(processed) = 3
    /\ last.kind = "depth"
    /\ Len(published) = 1

\* ------------------------------------------------------------------- C27
\* the commands waiting on the three channels
Waiting == Len(orderChan) + Len(cancelChan) + Len(depthChan)

\* the snapshots the Depth calls have been given
Snapshots == {s \in 1..MaxCmds : depthCalls[s].pc = "returned"}

\* C27: single writer: whatever the callers of AddOrder, CancelOrder and
\* Depth do, the bid and ask queues are read and written only in steps of
\* the command loop, each of which dequeues exactly one command and handles
\* it to its end; a step of a caller only sends a command or returns.
C27_SingleWriter ==
    [][/\ (bidQueue' # bidQueue \/ askQueue' # askQueue \/ last' # last
             \/ Snapshots' # Snapshots \/ published' # published)
            => (/\ Len(processed') = Len(processed) + 1
                /\ Waiting' = Waiting - 1
                /\ cmds' = cmds)
       /\ cmds' # cmds
            => (/\ Waiting' = Waiting + 1
                /\ processed' = processed)]_vars

\* the loop has handled an add that rests while a cancel and a Depth
\* request wait on their channels
C27_Witness ==
    /\ last.kind = "add"
    /\ bidQueue \o askQueue # <<>>
    /\ cancelChan # <<>>
    /\ depthChan # <<>>

\* ------------------------------------------------------------------- C28
\* how often the command numbered n is on a channel or has been received
\* by the loop
Placed(n) ==
    Cardinality({i \in 1..Len(orderChan) :
                    cmds[n].kind \in {"add", "addTimeout"}
                    /\ orderChan[i].id = n})
    + Cardinality({i \in 1..Len(cancelChan) : cancelChan[i].seq = n})
    + Cardinality({i \in 1..Len(processed) : processed[i] = n})

TimedOut(n) == cmds[n].kind \in {"addTimeout", "cancelTimeout"}

\* every call that timed out has put nothing on a channel, and every other
\* command is on its channel or was received from it, once
PlacedRight ==
    \A n \in 1..Len(cmds) : Placed(n) = IF TimedOut(n) THEN 0 ELSE 1

EnqueueCall == ret.api \in {"AddOrder", "CancelOrder"}

\* C28 as stated: AddOrder and CancelOrder return Timeout only if the
\* command was not placed on the channel, and so is never processed, and
\* return success only if the command was placed on the channel exactly
\* once.
C28_EnqueueExact ==
    /\ PlacedRight
    /\ (EnqueueCall /\ ret.err = ErrTimeout) =>
          (ret.seq # 0 /\ TimedOut(ret.seq))
    /\ (EnqueueCall /\ ret.err = "nil") =>
          (ret.seq # 0 /\ ~TimedOut(ret.seq))

\* C28, amended: as C28_EnqueueExact, but CancelOrder of the empty id
\* returns success with nothing placed on the channel.
C28_EnqueueExactButEmptyId ==
    /\ PlacedRight
    /\ (EnqueueCall /\ ret.err = ErrTimeout) =>
          (ret.seq # 0 /\ TimedOut(ret.seq))
    /\ (EnqueueCall /\ ret.err = "nil") =>
          \/ ret.seq # 0 /\ ~TimedOut(ret.seq)
          \/ ret.api = "CancelOrder" /\ ret.id = 0 /\ ret.seq = 0

\* an add has timed out and, after it, an add and a cancel have been
\* handled by the loop
C28_Witness ==
    /\ Len(cmds) = 3
    /\ TimedOut(1)
    /\ processed = <<2, 3>>
    /\ cmds[1].kind = "addTimeout"

\* ------------------------------------------------------------------- C29
\* C29: in every batch produced for one incoming order there is at most one
\* is_cancel event, and it is the last event of the batch; no fill of that
\* order, as taker or as maker, is emitted after its is_cancel event, in
\* the same batch or in a later one.
C29_CancelTerminal ==
    \A i \in 1..Len(published) :
        \A k \in 1..Len(published[i]) :
            published[i][k].isCancel =>
                /\ k = Len(published[i])
                /\ \A j \in (i + 1)..Len(published) :
                      \A m \in 1..Len(published[j]) :
                          /\ published[j][m].taker # published[i][k].taker
                          /\ published[j][m].maker # published[i][k].taker

\* after the batch of an order that was cancelled outright, a later order
\* has filled and had its remainder cancelled
C29_Witness ==
    /\ Len(published) = 2
    /\ Len(published[1]) = 1
    /\ published[1][1].isCancel
    /\ Len(published[2]) = 2
    /\ ~published[2][1].isCancel
    /\ published[2][2].isCancel

\* ------------------------------------------------------------------- C30
\* the three outcomes of the last add
OutcomeFilled ==
    /\ LastCancels = <<>>
    /\ Unfilled = 0
    /\ last.order.id \notin RestingIds(PostMy)

OutcomeRests ==
    /\ last.order.type \in {Limit, PostOnly}
    /\ LastCancels = <<>>
    /\ last.order.id \in RestingIds(PostMy)

OutcomeCancelled ==
    /\ Len(LastCancels) = 1
    /\ last.order.id \notin RestingIds(PostMy)

\* C30: every order AddOrder accepted reaches exactly one outcome when the
\* loop processes it: it is fully filled, or it rests (Limit and PostOnly
\* only), or one terminal is_cancel event is emitted for it; none is dropped
\* without resting or producing an event, whatever its type string.
C30_DefinedOutcome ==
    last.kind = "add" =>
        /\ ~last.panic
        /\ Cardinality({o \in {"filled", "rests", "cancelled"} :
                \/ o = "filled" /\ OutcomeFilled
                \/ o = "rests" /\ OutcomeRests
                \/ o = "cancelled" /\ OutcomeCancelled}) = 1

\* ------------------------------------------------------------------- C31
\* the places (side, level, position) where the order id rests
PlacesOf(id) ==
    {<<s, i, j>> \in Sides \X (1..(MaxCmds + 1)) \X (1..(MaxCmds + 1)) :
        LET q == IF s = Buy THEN bidQueue ELSE askQueue IN
        /\ i <= Len(q)
        /\ j <= Len(q[i].list)
        /\ q[i].list[j].id = id}

\* a queue holds orders of its side and of the resting types, each in the
\* level of its price
WellPlaced(q, side) ==
    \A i \in 1..Len(q) : \A j \in 1..Len(q[i].list) :
        /\ q[i].list[j].type \in {Limit, PostOnly}
        /\ q[i].list[j].side = side
        /\ q[i].list[j].price = q[i].price

\* the size of order id filled by the first k published trades, as taker
\* or as maker
FilledBy(id, k) ==
    SumSizes(SelectSeq(SubSeq(AllTrades, 1, k),
                       LAMBDA t : ~t.isCancel /\ (t.taker = id \/ t.maker = id)))

\* C31: every resting order has type Limit or PostOnly, lies on the side of
\* its own side, in the level of its price, in one place only; a maker that
\* has been filled completely rests nowhere and is the maker of no later
\* trade.
C31_RestingShape ==
    /\ WellPlaced(bidQueue, Buy)
    /\ WellPlaced(askQueue, Sell)
    /\ \A id \in 1..Len(cmds) : Cardinality(PlacesOf(id)) <= 1
    /\ \A k \in 1..Len(AllTrades) :
          LET t == AllTrades[k] IN
          ~t.isCancel =>
              /\ FilledBy(t.maker, k - 1) < cmds[t.maker].order.size
              /\ (FilledBy(t.maker, Len(AllTrades)) >=
                      cmds[t.maker].order.size
                  => PlacesOf(t.maker) = {})

\* ------------------------------------------------------------------- C32
\* the next pass of the loop the add is in would leave the order's size and
\* both queues as they are and go round again
Spinning ==
    /\ last.kind = "adding"
    /\ last.pc \in {"match", "market"}
    /\ LET it == IF last.pc = "match"
                 THEN matchIter(last.order, MyQueue, TargetQueue, last.size,
                                last.trades)
                 ELSE marketIter(last.order, MyQueue, TargetQueue, last.size,
                                 last.trades) IN
       /\ it.pc = last.pc
       /\ it.size = last.size
       /\ it.my = MyQueue
       /\ it.target = TargetQueue

\* an add is followed no further only when it is spinning
CutOnlySpinning ==
    (last.kind = "adding" /\ Len(last.trades) >= MaxTrades) => Spinning

\* the passes and the handlers agree: an add that has ended left what
\* bookAddOrder computes
StepsAgree ==
    last.kind = "add" =>
        LET out == bookAddOrder(last.order, last.bid, last.ask) IN
        /\ out.panic = last.panic
        /\ out.trades = last.trades
        /\ out.bid = bidQueue
        /\ out.ask = askQueue

\* the FOK walk is at a level of the opposite side or just past the last
FokWalkInRange ==
    Adding("fok") => last.el \in 1..(Len(TargetQueue) + 1)

\* C32: processing of every add command terminates: the order the loop has
\* taken from orderChan is eventually handled, the FOK walk and the
\* matching loops ending after finitely many passes.
C32_AddTerminates == (last.kind = "adding") ~> (last.kind = "add")

\* ------------------------------------------------------------------- C33
\* the size of maker id filled by the first k trades of the last batch
LastFilledOf(id, k) ==
    SumSizes(SelectSeq(SubSeq(last.trades, 1, k),
                       LAMBDA t : ~t.isCancel /\ t.maker = id))

\* C33: the fills of one incoming order come best opposite price first:
\* their prices never improve along the batch (non-decreasing for a buy
\* taker, non-increasing for a sell taker), and when a level is touched
\* every order that rested at a better price has been filled completely.
C33_PricePriority ==
    (last.kind = "add" /\ ~last.panic) =>
        /\ \A j, k \in 1..Len(LastFills) :
              j < k => ~Before(Opp(last.order.side), LastFills[k].price,
                               LastFills[j].price)
        /\ \A k \in 1..Len(last.trades) :
              ~last.trades[k].isCancel =>
                  \A i \in 1..Len(Resting(PreTarget)) :
                      LET o == Resting(PreTarget)[i] IN
                      Before(Opp(last.order.side), o.price,
                             last.trades[k].price)
                          => LastFilledOf(o.id, k - 1) = o.size

\* an order has filled at two prices, the better one first
C33_Witness ==
    /\ last.kind = "add"
    /\ Len(LastFills) = 2
    /\ LastFills[1].price # LastFills[2].price
    /\ Len(PreTarget) = 2

\* ------------------------------------------------------------------- C34
PricesOf(q) == {Resting(q)[i].price : i \in 1..Len(Resting(q))}

Min(a, b) == IF a < b THEN a ELSE b

\* d lists the best levels of the side, at most limit of them, best first,
\* each with its price, its totalSize and a size above zero
DepthOfSide(d, q, side, limit) ==
    /\ Len(d) = Min(limit, Cardinality(PricesOf(q)))
    /\ \A i \in 1..Len(d) :
          /\ d[i].price = q[i].price
          /\ d[i].size = q[i].totalSize
          /\ d[i].size > 0
          /\ \A j \in 1..Len(d) : i < j => Before(side, d[i].price, d[j].price)
          /\ \A r \in PricesOf(q) \ {d[j].price : j \in 1..Len(d)} :
                Before(side, d[i].price, r)

\* C34: Depth(L) with L > 0 returns for each side the first min(L, number
\* of levels) levels in priority order, each as (price, totalSize) with
\* distinct prices and totalSize > 0; Depth(0) returns InvalidParam and no
\* request of limit 0 is ever enqueued.
C34_DepthLevels ==
    /\ last.kind = "depth" =>
          /\ last.limit > 0
          /\ DepthOfSide(last.data.bids, last.bid, Buy, last.limit)
          /\ DepthOfSide(last.data.asks, last.ask, Sell, last.limit)
    /\ (ret.api = "Depth" /\ ret.limit = 0) => ret.err = ErrInvalidParam
    /\ \A i \in 1..Len(depthChan) : depthChan[i].limit > 0
    /\ \A i \in 1..Len(cmds) : cmds[i].kind = "depth" => cmds[i].limit > 0

\* ------------------------------------------------------------------- C35
\* C35: the command loop never fails while processing an accepted order,
\* whatever its type: the matcher never uses the popped head of an empty
\* opposite side, and the loop stays alive to serve later commands.
C35_LoopNeverFails ==
    /\ alive
    /\ last.kind = "add" => ~last.panic

\* ------------------------------------------------------------------- C36
\* the caller of every request on depthChan, and of the request the loop
\* is replying to, waits on its msg.Resp for a reply of the limit it asked
CallersWait ==
    /\ \A i \in 1..Len(depthChan) :
          depthCalls[depthChan[i].seq] =
              [pc |-> "waiting", limit |-> depthChan[i].limit]
    /\ last.kind = "replying" =>
          depthCalls[last.seq] = [pc |-> "waiting", limit |-> last.limit]

\* a reply goes to the caller of the request the loop took, with the levels
\* for that caller's limit; no other call is touched, and a call that has
\* its reply gets no second one
OneReply ==
    \A s \in 1..MaxCmds :
        depthCalls'[s] # depthCalls[s] =>
            \/ /\ depthCalls[s].pc = "idle"
               /\ depthCalls'[s].pc = "waiting"
            \/ /\ depthCalls[s].pc = "waiting"
               /\ last.kind = "replying"
               /\ last.seq = s
               /\ depthCalls'[s] =
                      [pc |-> "returned", limit |-> depthCalls[s].limit,
                       data |-> bookDepth(depthCalls[s].limit, last.bid,
                                          last.ask)]
               /\ \A o \in 1..MaxCmds \ {s} : depthCalls'[o] = depthCalls[o]

\* C36: every depth request the loop dequeues gets exactly one reply, on
\* its own reply channel and so to the caller that issued it, and the loop
\* is never blocked for ever on the unbuffered reply send, because a caller
\* whose request was enqueued always waits for the reply.
C36_DepthHandshake ==
    /\ []CallersWait
    /\ [][OneReply]_vars
    /\ (last.kind = "replying") ~> (last.kind = "depth")

\* two callers wait, and the loop has replied to the first of them
C36_Witness ==
    /\ last.kind = "depth"
    /\ depthCalls[last.seq].pc = "returned"
    /\ \E s \in 1..MaxCmds : s # last.seq /\ depthCalls[s].pc = "waiting"

\* ------------------------------------------------------------------- C37
\* how many times the order id rests on q
CountOf(q, id) ==
    Cardinality({i \in 1..Len(Resting(q)) : Resting(q)[i].id = id})

\* C37: CancelOrder of the empty id returns success at once and puts
\* nothing on the cancel channel; cancelOrder looks on the ask side before
\* the bid side and removes the order from one side at most: from the ask
\* side when it rests there, else from the bid side when it rests there.
C37_CancelAskFirst ==
    /\ (ret.api = "CancelOrder" /\ ret.id = 0) =>
           (ret.err = "nil" /\ ret.seq = 0)
    /\ \A i \in 1..Len(cancelChan) : cancelChan[i].id # 0
    /\ \A i \in 1..Len(cmds) : cmds[i].kind = "cancel" => cmds[i].id # 0
    /\ last.kind = "cancel" =>
          IF CountOf(last.ask, last.id) > 0
          THEN /\ bidQueue = last.bid
               /\ CountOf(askQueue, last.id) = CountOf(last.ask, last.id) - 1
          ELSE IF CountOf(last.bid, last.id) > 0
          THEN /\ askQueue = last.ask
               /\ CountOf(bidQueue, last.id) = CountOf(last.bid, last.id) - 1
          ELSE bidQueue = last.bid /\ askQueue = last.ask

\* the cancelled id rested on both sides: it is gone from the ask side and
\* still on the bid side
C37_Witness ==
    /\ last.kind = "cancel"
    /\ CountOf(last.ask, last.id) = 1
    /\ CountOf(last.bid, last.id) = 1
    /\ CountOf(askQueue, last.id) = 0
    /\ CountOf(bidQueue, last.id) = 1

====
